---- MODULE Spec2Model ----
(***************************************************************************)
(* Model of the beadsprite_helper backend: grid detection                   *)
(* (services/grid_detection.py), pixel sampling                             *)
(* (services/pixel_extraction.py), colour utilities                         *)
(* (services/color_utils.py) and the colour matching route                  *)
(* (routers/colors.py).                                                      *)
(*                                                                           *)
(* Conventions.  Python lists and numpy arrays are sequences; At(s, i) is   *)
(* the 0-based element s[i].  A grayscale value is kept as the channel sum  *)
(* r+g+b, that is in exact units of 1/3 (np.mean over the channel axis      *)
(* divides by 3); an autocorrelation value is therefore in exact units of   *)
(* 1/9.  Every later step of the detector is a comparison that is           *)
(* invariant under this positive scaling.  The FFT-based correlation is     *)
(* modelled by the direct sum it approximates.                               *)
(***************************************************************************)
EXTENDS Integers, Sequences, FiniteSets, TLC

VARIABLES
    pc,             \* which call has run: "start", "detected", ...
    image,          \* the RGB image: a sequence of rows of <<r, g, b>> pixels
    min_cell_size,  \* detect_grid argument
    max_cell_size,  \* detect_grid argument
    grid_info,      \* outcome of detect_grid, or the grid handed to the sampler
    pixel_data,     \* outcome of extract_pixels_from_grid
    hex_color,      \* hex_to_rgb argument: a sequence of characters
    rgb,            \* outcome of hex_to_rgb
    PERLER_COLORS,  \* the process-wide palette table
    request,        \* the ColorMatchRequest, or the form fields of an upload
    response,       \* outcome of match_colors or of upload_image
    calls,          \* upload_image: the service calls made so far, in order
    size,           \* upload_image: <<width, height>> as read from the upload
    handlers        \* the requests in flight on the palette endpoints

vars == <<pc, image, min_cell_size, max_cell_size, grid_info, pixel_data,
          hex_color, rgb, PERLER_COLORS, request, response, calls, size,
          handlers>>

gridVars == <<image, min_cell_size, max_cell_size, grid_info>>

pixelVars == <<pixel_data>>

hexVars == <<hex_color, rgb>>

matchVars == <<PERLER_COLORS, request, response>>

uploadVars == <<calls, size>>

----------------------------------------------------------------------------
(* Python / numpy helpers *)

At(s, i) == s[i + 1]

Min2(a, b) == IF a < b THEN a ELSE b

Max2(a, b) == IF a > b THEN a ELSE b

\* s[a:b] for 0 <= a, 0 <= b: both ends are clipped to len(s)
Slice(s, a, b) ==
    LET lo == Min2(a, Len(s))
        hi == Min2(b, Len(s))
    IN  IF hi <= lo THEN <<>> ELSE SubSeq(s, lo + 1, hi)

RECURSIVE SumSeq(_)
SumSeq(s) == IF s = <<>> THEN 0 ELSE Head(s) + SumSeq(Tail(s))

RECURSIVE ISqrt(_)
\* floor of the square root
ISqrt(v) ==
    IF v < 2 THEN v
    ELSE LET s == 2 * ISqrt(v \div 4)
         IN  IF (s + 1) * (s + 1) <= v THEN s + 1 ELSE s

\* least r with r*r >= v
CeilSqrt(v) == LET s == ISqrt(v) IN IF s * s = v THEN s ELSE s + 1

\* an Optional[int]: <<>> is None, <<v>> is the value v
None == <<>>

Some(v) == <<v>>

----------------------------------------------------------------------------
(* scipy.signal.correlate(x, x, mode='same') of a 1-D array *)

RECURSIVE CorrSum(_, _, _, _)
\* sum of x[l] * x[l + lag] for l in lo..hi, by halves
CorrSum(x, lag, lo, hi) ==
    IF lo > hi THEN 0
    ELSE IF lo = hi THEN At(x, lo) * At(x, lo + lag)
    ELSE LET mid == (lo + hi) \div 2
         IN  CorrSum(x, lag, lo, mid) + CorrSum(x, lag, mid + 1, hi)

\* entry k of the full correlation (length 2n-1); its lag is k - (n-1)
CorrelateFull(x, k) ==
    LET lag == k - (Len(x) - 1)
        abs == IF lag < 0 THEN 0 - lag ELSE lag
    IN  CorrSum(x, abs, 0, Len(x) - 1 - abs)

\* mode='same': the n entries of the full output centred on it,
\* starting at (2n-1 - n) // 2
CorrelateSame(x) ==
    LET n == Len(x)
        start == (n - 1) \div 2
    IN  [i \in 1..n |-> CorrelateFull(x, (i - 1) + start)]

----------------------------------------------------------------------------
(* scipy.signal.find_peaks(x, prominence=p, distance=d) *)

RECURSIVE PlateauEnd(_, _, _)
\* first index from ia on that leaves the plateau of x[i], or the last index
PlateauEnd(x, i, ia) ==
    IF ia < Len(x) - 1 /\ At(x, ia) = At(x, i)
    THEN PlateauEnd(x, i, ia + 1)
    ELSE ia

RECURSIVE LocalMaximaFrom(_, _)
\* midpoints of the strict local maxima (flat tops included) at index >= i;
\* the first and the last sample are never maxima
LocalMaximaFrom(x, i) ==
    IF i >= Len(x) - 1 THEN <<>>
    ELSE IF At(x, i - 1) < At(x, i)
         THEN LET ia == PlateauEnd(x, i, i + 1)
              IN  IF At(x, ia) < At(x, i)
                  THEN <<(i + ia - 1) \div 2>> \o LocalMaximaFrom(x, ia + 1)
                  ELSE LocalMaximaFrom(x, i + 1)
         ELSE LocalMaximaFrom(x, i + 1)

LocalMaxima(x) == LocalMaximaFrom(x, 1)

RECURSIVE SelectLoop(_, _, _, _, _)
\* visit the peaks by decreasing height (equal heights: the later one
\* first, the order a stable argsort read backwards gives); a peak that is
\* still kept drops every other peak closer than distance
SelectLoop(x, peaks, distance, todo, keep) ==
    IF todo = {} THEN keep
    ELSE LET j == CHOOSE c \in todo : \A k \in todo :
                      \/ At(x, peaks[k]) < At(x, peaks[c])
                      \/ (At(x, peaks[k]) = At(x, peaks[c]) /\ k <= c)
             near == {k \in keep : k # j /\ peaks[k] - peaks[j] < distance
                                         /\ peaks[j] - peaks[k] < distance}
         IN  IF j \in keep
             THEN SelectLoop(x, peaks, distance, todo \ {j}, keep \ near)
             ELSE SelectLoop(x, peaks, distance, todo \ {j}, keep)

RECURSIVE KeepOnly(_, _, _)
KeepOnly(peaks, keep, k) ==
    IF k > Len(peaks) THEN <<>>
    ELSE (IF k \in keep THEN <<peaks[k]>> ELSE <<>>) \o KeepOnly(peaks, keep, k + 1)

SelectByPeakDistance(x, peaks, distance) ==
    KeepOnly(peaks, SelectLoop(x, peaks, distance, DOMAIN peaks, DOMAIN peaks), 1)

RECURSIVE LeftMin(_, _, _, _)
LeftMin(x, peak, i, m) ==
    IF 0 <= i /\ At(x, i) <= At(x, peak)
    THEN LeftMin(x, peak, i - 1, Min2(m, At(x, i)))
    ELSE m

RECURSIVE RightMin(_, _, _, _)
RightMin(x, peak, i, m) ==
    IF i <= Len(x) - 1 /\ At(x, i) <= At(x, peak)
    THEN RightMin(x, peak, i + 1, Min2(m, At(x, i)))
    ELSE m

\* height of the peak above the higher of the two lowest points that
\* separate it from higher ground (or from the ends of x)
Prominence(x, peak) ==
    At(x, peak) - Max2(LeftMin(x, peak, peak, At(x, peak)),
                       RightMin(x, peak, peak, At(x, peak)))

RECURSIVE SumSquares(_)
SumSquares(s) == IF s = <<>> THEN 0 ELSE Head(s) * Head(s) + SumSquares(Tail(s))

\* len(x) * np.std(x), rounded up: sqrt(n * sum x^2 - (sum x)^2)
LenTimesStd(x) == CeilSqrt(Len(x) * SumSquares(x) - SumSeq(x) * SumSeq(x))

\* prominence >= np.std(x) * 0.1, as an exact integer comparison
ProminentEnough(x, peak) == 10 * Len(x) * Prominence(x, peak) >= LenTimesStd(x)

RECURSIVE FilterProminent(_, _, _)
FilterProminent(x, peaks, k) ==
    IF k > Len(peaks) THEN <<>>
    ELSE (IF ProminentEnough(x, peaks[k]) THEN <<peaks[k]>> ELSE <<>>)
         \o FilterProminent(x, peaks, k + 1)

\* find_peaks(x, prominence=np.std(x) * 0.1, distance=distance): the
\* distance condition is applied before the prominence condition
FindPeaks(x, distance) ==
    FilterProminent(x, SelectByPeakDistance(x, LocalMaxima(x), distance), 1)

----------------------------------------------------------------------------
(* services/grid_detection.py *)

\* find_peaks(..., distance=5)
PeakDistance == 5

\* range(5, search_range - 1) and second_diff[5:]
FirstIndex == 5

\* if search_range < 3: return None
MinSearchRange == 3

\* the curvature tier asking for one more sample
CurvatureRangeWide == 10 + 1

\* if search_range > 10
CurvatureRange == 10

\* crop_size = min(256, h, w)
MaxCrop == 256

\* confidence = 0.9, in tenths
ConfidenceTenths == 9

\* np.diff
Diff(s) == [i \in 1..(Len(s) - 1) |-> s[i + 1] - s[i]]

RECURSIVE ArgMaxFrom(_, _, _)
\* np.argmax: the first index of the largest entry
ArgMaxFrom(s, i, best) ==
    IF i >= Len(s) THEN best
    ELSE ArgMaxFrom(s, i + 1, IF At(s, i) > At(s, best) THEN i ELSE best)

ArgMax(s) == ArgMaxFrom(s, 1, 0)

RECURSIVE FirstLocalMax(_, _, _)
\* for i in range(i, stop): the first i with
\* search_line[i-1] < search_line[i] > search_line[i+1], as an Optional
FirstLocalMax(search_line, i, stop) ==
    IF i >= stop THEN None
    ELSE IF At(search_line, i) > At(search_line, i - 1)
            /\ At(search_line, i) > At(search_line, i + 1)
         THEN Some(i)
         ELSE FirstLocalMax(search_line, i + 1, stop)

\* the curvature tier: np.argmax(second_diff[5:]) + 5 + 1
CurvatureCandidate(search_line) ==
    LET second_diff == Diff(Diff(search_line))
    IN  ArgMax(Slice(second_diff, FirstIndex, Len(second_diff))) + FirstIndex + 1

\* the peak search with the local-maximum scan tried before find_peaks
PeriodicPeakTierLocalFirst(line, max_size) ==
    LET line1 == Slice(line, 1, Len(line))
        search_range == Min2(max_size, Len(line1))
        search_line == Slice(line1, 0, search_range)
        peaks == FindPeaks(search_line, PeakDistance)
        local == FirstLocalMax(search_line, FirstIndex, search_range - 1)
        candidate == CurvatureCandidate(search_line)
    IN  IF search_range < MinSearchRange
        THEN [tier |-> "short", value |-> None]
        ELSE IF local # None
        THEN [tier |-> "local", value |-> Some(local[1] + 1)]
        ELSE IF Len(peaks) > 0
        THEN [tier |-> "prominence", value |-> Some(At(peaks, 0) + 1)]
        ELSE IF search_range > CurvatureRange /\ candidate <= max_size
        THEN [tier |-> "curvature", value |-> Some(candidate)]
        ELSE [tier |-> "none", value |-> None]

\* the peak search returning positions in the line without its first
\* element, not lags
PeriodicPeakTierNoOffset(line, max_size) ==
    LET line1 == Slice(line, 1, Len(line))
        search_range == Min2(max_size, Len(line1))
        search_line == Slice(line1, 0, search_range)
        peaks == FindPeaks(search_line, PeakDistance)
        local == FirstLocalMax(search_line, FirstIndex, search_range - 1)
        candidate == CurvatureCandidate(search_line)
    IN  IF search_range < MinSearchRange
        THEN [tier |-> "short", value |-> None]
        ELSE IF Len(peaks) > 0
        THEN [tier |-> "prominence", value |-> Some(At(peaks, 0))]
        ELSE IF local # None
        THEN [tier |-> "local", value |-> Some(local[1])]
        ELSE IF search_range > CurvatureRange /\ candidate <= max_size
        THEN [tier |-> "curvature", value |-> Some(candidate)]
        ELSE [tier |-> "none", value |-> None]

\* find_periodic_peak with the tier that returned:
\* "short", "prominence", "local", "curvature" or "none"
PeriodicPeakTier(line, max_size) ==
    LET line1 == Slice(line, 1, Len(line))
        search_range == Min2(max_size, Len(line1))
        search_line == Slice(line1, 0, search_range)
        peaks == FindPeaks(search_line, PeakDistance)
        local == FirstLocalMax(search_line, FirstIndex, search_range - 1)
        candidate == CurvatureCandidate(search_line)
    IN  IF search_range < MinSearchRange
        THEN [tier |-> "short", value |-> None]
        ELSE IF Len(peaks) > 0
        THEN [tier |-> "prominence", value |-> Some(At(peaks, 0) + 1)]
        ELSE IF local # None
        THEN [tier |-> "local", value |-> Some(local[1] + 1)]
        ELSE IF search_range > CurvatureRange /\ candidate <= max_size
        THEN [tier |-> "curvature", value |-> Some(candidate)]
        ELSE [tier |-> "none", value |-> None]

\* find_periodic_peak(line, max_size): Optional[int]
find_periodic_peak(line, max_size) == PeriodicPeakTier(line, max_size).value

\* np.mean(img_array, axis=2), in units of 1/3
Gray(img_array) ==
    [y \in 1..Len(img_array) |->
        [x \in 1..Len(img_array[y]) |->
            img_array[y][x][1] + img_array[y][x][2] + img_array[y][x][3]]]

\* gray[r0:r1, c0:c1]
Crop(gray, r0, r1, c0, c1) ==
    LET rows == Slice(gray, r0, r1)
    IN  [y \in 1..Len(rows) |-> Slice(rows[y], c0, c1)]

\* detect_grid_autocorrelation: [kind |-> "raise"] for the IndexError of an
\* index past the end of the crop, [kind |-> "none"] for None, else the
\* tuple (pixel_width, pixel_height, confidence)
detect_grid_autocorrelation(img_array, max_pixel_size) ==
    LET gray == Gray(img_array)
        h == Len(gray)
        w == Len(gray[1])
        crop_size == Min2(MaxCrop, Min2(h, w))
        center_h == h \div 2
        center_w == w \div 2
        half == crop_size \div 2
        cropped == Crop(gray, center_h - half, center_h + half,
                              center_w - half, center_w + half)
        center_row == At(cropped, half)
        center_col == [y \in 1..Len(cropped) |-> At(cropped[y], half)]
        h_autocorr == CorrelateSame(center_row)
        v_autocorr == CorrelateSame(center_col)
        h_center == Len(h_autocorr) \div 2
        v_center == Len(v_autocorr) \div 2
        pixel_width ==
            find_periodic_peak(Slice(h_autocorr, h_center, Len(h_autocorr)),
                               max_pixel_size)
        pixel_height ==
            find_periodic_peak(Slice(v_autocorr, v_center, Len(v_autocorr)),
                               max_pixel_size)
    IN  IF half >= Len(cropped) \/ half >= Len(cropped[1])
        THEN [kind |-> "raise", exc |-> "IndexError"]
        ELSE IF pixel_width = None \/ pixel_height = None
        THEN [kind |-> "none"]
        ELSE [kind |-> "tuple", pixel_width |-> pixel_width[1],
              pixel_height |-> pixel_height[1], confidence |-> ConfidenceTenths]

\* detect_grid with the grid counted on the analysed square crop instead of
\* on the full image
detect_grid_on_crop(img, min_size, max_size) ==
    LET side == Min2(MaxCrop, Min2(Len(img), Len(img[1])))
        result == detect_grid_autocorrelation(img, max_size)
    IN  IF result.kind # "tuple" THEN result
        ELSE [kind |-> "grid",
              cell_width |-> result.pixel_width,
              cell_height |-> result.pixel_height,
              grid_cols |-> side \div result.pixel_width,
              grid_rows |-> side \div result.pixel_height,
              confidence |-> result.confidence]

\* detect_grid(image, min_cell_size, max_cell_size): the dict, None, or the
\* exception that escapes
detect_grid(img, min_size, max_size) ==
    LET height == Len(img)
        width == Len(img[1])
        result == detect_grid_autocorrelation(img, max_size)
    IN  IF result.kind # "tuple" THEN result
        ELSE [kind |-> "grid",
              cell_width |-> result.pixel_width,
              cell_height |-> result.pixel_height,
              grid_cols |-> width \div result.pixel_width,
              grid_rows |-> height \div result.pixel_height,
              confidence |-> result.confidence]

----------------------------------------------------------------------------
(* Input images.  Channel values are kept small so that the exact integer  *)
(* form of the prominence test stays inside TLC's 32-bit integers; the     *)
(* detector is invariant under a common positive scaling of the image.     *)

\* largest block side / line spacing of a generated image
MaxBlock == 8

\* largest image side is SideUnit * 4
SideUnit == 8

Black == <<0, 0, 0>>

Dim == <<1, 1, 1>>

Tint == <<2, 2, 1>>

\* the same channel sum as Dim
Rust == <<2, 1, 0>>

Ember == <<1, 0, 0>>

ColourPairs == {<<Black, Dim>>, <<Dim, Black>>, <<Dim, Tint>>, <<Dim, Rust>>}

Sides == {1, 3, SideUnit, 2 * SideUnit, 3 * SideUnit, 4 * SideUnit}

BlockSizes == {2, 3, MaxBlock}

\* every pixel the same colour
UniformImage(w, h, c) == [y \in 1..h |-> [x \in 1..w |-> c]]

\* bw x bh blocks of two alternating flat colours, from the top-left corner
BlockImage(w, h, bw, bh, a, b) ==
    [y \in 1..h |-> [x \in 1..w |->
        IF (((x - 1) \div bw) + ((y - 1) \div bh)) % 2 = 0 THEN a ELSE b]]

\* colour a with one-pixel lines of colour b every px columns and py rows
GridlineImage(w, h, px, py, a, b) ==
    [y \in 1..h |-> [x \in 1..w |->
        IF (x - 1) % px = 0 \/ (y - 1) % py = 0 THEN b ELSE a]]

Width(img) == Len(img[1])

Height(img) == Len(img)

IsUniform(img) ==
    \A y \in 1..Height(img) : \A x \in 1..Width(img) : img[y][x] = img[1][1]

UniformImages ==
    {UniformImage(w, h, c) : w \in Sides, h \in Sides, c \in {Black, Dim, Tint}}

\* the 32x32 checkerboard of 4x4 blocks of 8x8 pixels
Checkerboards == {BlockImage(32, 32, 8, 8, p[1], p[2]) : p \in ColourPairs}

\* images larger than the crop
LargeImages ==
    {BlockImage(MaxCrop + 8, MaxCrop + 4, 8, 8, Black, Ember),
     UniformImage(MaxCrop + 1, MaxCrop + 44, Ember)}

BlockImages ==
    {BlockImage(d[1], d[2], bs[1], bs[2], p[1], p[2]) :
        d \in {<<w, w>> : w \in Sides} \cup {<<4 * SideUnit, 2 * SideUnit>>,
                                             <<3 * SideUnit, 4 * SideUnit>>},
        bs \in {<<n, n>> : n \in BlockSizes} \cup {<<2, 3>>, <<MaxBlock, 3>>},
        p \in ColourPairs}

GridlineImages ==
    {GridlineImage(w, w, n, n, p[1], p[2]) :
        w \in {3 * SideUnit, 4 * SideUnit}, n \in 2..MaxBlock,
        p \in {<<Dim, Tint>>, <<Tint, Dim>>, <<Dim, Black>>}}

\* checkerboards of single pixels: the shortest period there is
FineCheckerboards ==
    {BlockImage(w, w, 1, 1, Black, Dim) : w \in {SideUnit, 2 * SideUnit}}

Images ==
    UniformImages \cup BlockImages \cup GridlineImages \cup Checkerboards
    \cup LargeImages \cup FineCheckerboards

MinCellSizes == {1, 2, 10, 20}

MaxCellSizes == {2, 5, 12, 50}

----------------------------------------------------------------------------
(* Grid detection as a state machine: an image arrives, detect_grid runs *)

Pending == [kind |-> "pending"]

NoRequest == [colors |-> <<>>, method |-> "lab", available_colors |-> <<>>]

InitGrid ==
    /\ pc = "start"
    /\ image \in Images
    /\ min_cell_size = 2
    /\ max_cell_size = 50
    /\ grid_info = Pending
    /\ pixel_data = Pending
    /\ hex_color = <<>>
    /\ rgb = Pending
    /\ PERLER_COLORS = <<>>
    /\ request = NoRequest
    /\ response = Pending
    /\ calls = <<>>
    /\ size = <<0, 0>>
    /\ handlers = <<>>

\* detect_grid(image, min_size, max_size)
DetectGrid(min_size, max_size) ==
    /\ pc = "start"
    /\ pc' = "detected"
    /\ min_cell_size' = min_size
    /\ max_cell_size' = max_size
    /\ grid_info' = detect_grid(image, min_size, max_size)
    /\ UNCHANGED <<image, pixelVars, hexVars, matchVars, uploadVars,
                 handlers>>

NextGrid == \E mn \in MinCellSizes, mx \in MaxCellSizes : DetectGrid(mn, mx)

SpecGrid == InitGrid /\ [][NextGrid]_vars

Detected == pc = "detected"

\* the call used the default arguments min_cell_size=2, max_cell_size=50
DefaultArgs == min_cell_size = 2 /\ max_cell_size = 50

\* C1: on the 32x32 checkerboard of 8x8 blocks, detect_grid with the default
\* arguments returns cell_width = cell_height = 8 with confidence 0.9
C1_CheckerboardIs8 ==
    (Detected /\ DefaultArgs /\ image \in Checkerboards
        /\ image[1][1] # image[1][9])
    => /\ grid_info.kind = "grid"
       /\ grid_info.cell_width = 8
       /\ grid_info.cell_height = 8
       /\ grid_info.confidence = ConfidenceTenths

\* at least 2x2 pixels: detect_grid returns (the 1-pixel images are those
\* of C5)
AtLeast2x2 == Width(image) >= 2 /\ Height(image) >= 2

\* C2: on an image whose pixels all have the same colour, detect_grid
\* returns None (stated for the images on which the call returns at all)
C2_UniformNotDetected ==
    (Detected /\ IsUniform(image) /\ AtLeast2x2) => grid_info.kind = "none"

\* C3: a returned GridInfo has both cell sizes inside
\* [min_cell_size, max_cell_size]
C3_SizesInRange ==
    (Detected /\ grid_info.kind = "grid")
    => /\ min_cell_size <= grid_info.cell_width
       /\ grid_info.cell_width <= max_cell_size
       /\ min_cell_size <= grid_info.cell_height
       /\ grid_info.cell_height <= max_cell_size

\* C4: an image narrower or lower than 2 * min_cell_size gives None
\* (stated for the images on which the call returns at all)
C4_SmallImageNotDetected ==
    (Detected /\ AtLeast2x2
        /\ (Width(image) < 2 * min_cell_size
            \/ Height(image) < 2 * min_cell_size))
    => grid_info.kind = "none"

\* C5: detect_grid ends with a GridInfo or None on every image of at least
\* 1x1 pixels, never with an exception
C5_NeverRaises == Detected => grid_info.kind \in {"grid", "none"}

\* C6: a returned GridInfo has cell sizes >= 1, grid_cols and grid_rows the
\* integer quotients of the full image width and height by the cell sizes,
\* and confidence 0.9
C6_GridInfoInvariant ==
    (Detected /\ grid_info.kind = "grid")
    => /\ grid_info.cell_width >= 1
       /\ grid_info.cell_height >= 1
       /\ grid_info.grid_cols = Width(image) \div grid_info.cell_width
       /\ grid_info.grid_rows = Height(image) \div grid_info.cell_height
       /\ grid_info.confidence = ConfidenceTenths

\* a grid detected on an image that is wider than the crop and not square,
\* with more columns than the crop could hold
C6_Witness ==
    /\ Detected
    /\ grid_info.kind = "grid"
    /\ Width(image) > MaxCrop
    /\ Width(image) # Height(image)
    /\ grid_info.grid_cols * grid_info.cell_width > MaxCrop

----------------------------------------------------------------------------
(* services/pixel_extraction.py *)

RECURSIVE Insert(_, _)
Insert(v, s) ==
    IF s = <<>> THEN <<v>>
    ELSE IF v <= Head(s) THEN <<v>> \o s
    ELSE <<Head(s)>> \o Insert(v, Tail(s))

RECURSIVE Sorted(_)
\* the values in ascending order
Sorted(s) == IF s = <<>> THEN <<>> ELSE Insert(Head(s), Sorted(Tail(s)))

RECURSIVE Flatten(_)
Flatten(rows) == IF rows = <<>> THEN <<>> ELSE Head(rows) \o Flatten(Tail(rows))

\* twice the lower of the two middle elements
MedianTwiceLower(values) ==
    LET sorted == Sorted(values)
    IN  2 * At(sorted, (Len(sorted) - 1) \div 2)

\* np.median of a non-empty array, doubled to stay an integer: the middle
\* element, or the mean of the two middle elements when the count is even
MedianTwice(values) ==
    LET sorted == Sorted(values)
        n == Len(sorted)
    IN  IF n % 2 = 1 THEN 2 * At(sorted, n \div 2)
        ELSE At(sorted, n \div 2 - 1) + At(sorted, n \div 2)

\* int(median): the float is truncated (the values are not negative)
IntOfHalves(twice) == twice \div 2

\* a third of the cell
MarginThird(cell) == cell \div 3

\* int(cell * 0.2)
Margin(cell) == (cell * 2) \div 10

\* the window over the whole width of the image, one row high
CellWindowWholeRow(img, gi, row_idx, col_idx) ==
    [x0 |-> 0, y0 |-> row_idx * gi.cell_height,
     x1 |-> Len(img[1]), y1 |-> row_idx * gi.cell_height + 1]

\* the slice bounds of the sampled window of the cell (row_idx, col_idx)
CellWindow(img, gi, row_idx, col_idx) ==
    LET x_start == col_idx * gi.cell_width
        y_start == row_idx * gi.cell_height
        x_end == Min2(x_start + gi.cell_width, Width(img))
        y_end == Min2(y_start + gi.cell_height, Height(img))
        margin_x == Margin(gi.cell_width)
        margin_y == Margin(gi.cell_height)
        inner_x_start == x_start + margin_x
        inner_y_start == y_start + margin_y
    IN  [x0 |-> inner_x_start,
         y0 |-> inner_y_start,
         x1 |-> Max2(inner_x_start + 1, x_end - margin_x),
         y1 |-> Max2(inner_y_start + 1, y_end - margin_y)]

\* img_array[y0:y1, x0:x1], the pixels row after row
WindowPixels(img, win) ==
    LET rows == Slice(img, win.y0, win.y1)
    IN  Flatten([y \in 1..Len(rows) |-> Slice(rows[y], win.x0, win.x1)])

Channel(pixels, c) == [i \in 1..Len(pixels) |-> pixels[i][c]]

\* the colour sampled for one cell: the per-channel median of the window,
\* or (0, 0, 0) when the window holds no pixel
CellColour(img, gi, row_idx, col_idx) ==
    LET cell == WindowPixels(img, CellWindow(img, gi, row_idx, col_idx))
    IN  IF Len(cell) > 0
        THEN [c \in 1..3 |-> IntOfHalves(MedianTwice(Channel(cell, c)))]
        ELSE <<0, 0, 0>>

\* extract_pixels_from_grid(image, grid_info)
extract_pixels_from_grid(img, gi) ==
    [kind |-> "pixels",
     width |-> gi.grid_cols,
     height |-> gi.grid_rows,
     grid |-> [r \in 1..gi.grid_rows |->
                 [c \in 1..gi.grid_cols |-> CellColour(img, gi, r - 1, c - 1)]]]

----------------------------------------------------------------------------
(* Pixel sampling as a state machine: an image and a grid arrive,          *)
(* extract_pixels_from_grid runs                                            *)

\* largest width and height of the two-colour images
MaxSmallW == 3

MaxSmallH == 2

\* longest one-row image of three colours
MaxStrip == 5

Sky == <<0, 10, 255>>

Rose == <<255, 11, 0>>

Moss == <<100, 200, 51>>

SmallImages ==
    UNION {[1..h -> [1..w -> {Sky, Rose}]] : w \in 1..MaxSmallW, h \in 1..MaxSmallH}
    \cup UNION {[1..1 -> [1..w -> {Sky, Rose, Moss}]] : w \in 1..MaxStrip}

\* the grids a caller can hand over for an image: any cell size up to one
\* more than the image, the counts by integer division
GridInfos(img) ==
    {[kind |-> "grid", cell_width |-> cw, cell_height |-> ch,
      grid_cols |-> Width(img) \div cw, grid_rows |-> Height(img) \div ch,
      confidence |-> 10] :
        cw \in 1..(Width(img) + 1), ch \in 1..(Height(img) + 1)}

InitPixels ==
    /\ pc = "start"
    /\ image \in SmallImages
    /\ min_cell_size = 2
    /\ max_cell_size = 50
    /\ grid_info = Pending
    /\ pixel_data = Pending
    /\ hex_color = <<>>
    /\ rgb = Pending
    /\ PERLER_COLORS = <<>>
    /\ request = NoRequest
    /\ response = Pending
    /\ calls = <<>>
    /\ size = <<0, 0>>
    /\ handlers = <<>>

\* extract_pixels_from_grid(image, gi)
ExtractFromGrid(gi) ==
    /\ pc = "start"
    /\ pc' = "extracted"
    /\ grid_info' = gi
    /\ pixel_data' = extract_pixels_from_grid(image, gi)
    /\ UNCHANGED <<image, min_cell_size, max_cell_size, hexVars, matchVars, uploadVars,
                 handlers>>

NextPixels == \E gi \in GridInfos(image) : ExtractFromGrid(gi)

SpecPixels == InitPixels /\ [][NextPixels]_vars

Extracted == pc = "extracted"

\* the cells of the extracted grid, 0-based (row, column)
Cells == (0..(grid_info.grid_rows - 1)) \X (0..(grid_info.grid_cols - 1))

\* the values of channel c in the sampled window of a cell
Sampled(cell, c) ==
    Channel(WindowPixels(image, CellWindow(image, grid_info, cell[1], cell[2])), c)

\* the value of rank k (0-based) among the values: fewer than k+1 values are
\* below it and at least k+1 values are not above it
Ranked(values, k) ==
    CHOOSE v \in {values[i] : i \in DOMAIN values} :
        /\ Cardinality({i \in DOMAIN values : values[i] < v}) <= k
        /\ Cardinality({i \in DOMAIN values : values[i] <= v}) > k

LowerMiddle(values) == Ranked(values, (Len(values) - 1) \div 2)

UpperMiddle(values) == Ranked(values, Len(values) \div 2)

Output(cell, c) == pixel_data.grid[cell[1] + 1][cell[2] + 1][c]

\* C7 as claimed: the value of a cell is per channel the median of the
\* sampled window, and for an even number of pixels it is the lower of the
\* two middle elements
C7_LowerOfTwoMiddle ==
    Extracted =>
        \A cell \in Cells : \A c \in 1..3 :
            Sampled(cell, c) # <<>>
            => Output(cell, c) = LowerMiddle(Sampled(cell, c))

\* C7 amended: the value of a cell is per channel the median of the sampled
\* window cut to an integer; for an even number of pixels the median is the
\* mean of the two middle elements, so the value is
\* floor((lower middle + upper middle) / 2)
C7_MedianTruncated ==
    Extracted =>
        \A cell \in Cells : \A c \in 1..3 :
            Sampled(cell, c) # <<>>
            => Output(cell, c) =
                (LowerMiddle(Sampled(cell, c)) + UpperMiddle(Sampled(cell, c))) \div 2

\* a cell sampled over an even number of pixels whose value lies strictly
\* between the two middle elements
C7_Witness ==
    /\ Extracted
    /\ \E cell \in Cells : \E c \in 1..3 :
        /\ Len(Sampled(cell, c)) % 2 = 0
        /\ Len(Sampled(cell, c)) >= 4
        /\ LowerMiddle(Sampled(cell, c)) < Output(cell, c)
        /\ Output(cell, c) < UpperMiddle(Sampled(cell, c))

----------------------------------------------------------------------------
(* services/color_utils.py: hex_to_rgb.  A str is a sequence of            *)
(* one-character strings.                                                   *)

LowerDigits ==
    <<"0", "1", "2", "3", "4", "5", "6", "7", "8", "9", "a", "b", "c", "d", "e", "f">>

UpperDigits ==
    <<"0", "1", "2", "3", "4", "5", "6", "7", "8", "9", "A", "B", "C", "D", "E", "F">>

IsHexDigit(c) ==
    \E i \in DOMAIN LowerDigits : LowerDigits[i] = c \/ UpperDigits[i] = c

DigitValue(c) ==
    (CHOOSE i \in DOMAIN LowerDigits : LowerDigits[i] = c \/ UpperDigits[i] = c) - 1

IsSpace(c) == c \in {" ", "\t", "\n"}

RECURSIVE LStrip(_, _)
\* str.lstrip(chars): every leading character of the set is removed
LStrip(str, chars) ==
    IF str # <<>> /\ Head(str) \in chars THEN LStrip(Tail(str), chars) ELSE str

RECURSIVE LStripSpace(_)
LStripSpace(str) ==
    IF str # <<>> /\ IsSpace(Head(str)) THEN LStripSpace(Tail(str)) ELSE str

RECURSIVE RStripSpace(_)
RStripSpace(str) ==
    IF str # <<>> /\ IsSpace(str[Len(str)])
    THEN RStripSpace(SubSeq(str, 1, Len(str) - 1))
    ELSE str

RECURSIVE DigitsValue(_, _)
\* the value of hex digits separated by single underscores, after the
\* digits read so far gave acc; None when the text is not of that form
DigitsValue(str, acc) ==
    IF str = <<>> THEN Some(acc)
    ELSE IF IsHexDigit(Head(str))
         THEN DigitsValue(Tail(str), 16 * acc + DigitValue(Head(str)))
    ELSE IF Head(str) = "_" /\ Len(str) >= 2 /\ IsHexDigit(str[2])
         THEN DigitsValue(Tail(str), acc)
    ELSE None

\* int(str, 16): surrounding whitespace, one sign, a 0x prefix and single
\* underscores between digits are accepted; None stands for ValueError
IntBase16(str) ==
    LET t == RStripSpace(LStripSpace(str))
        signed == t # <<>> /\ Head(t) \in {"+", "-"}
        u == IF signed THEN Tail(t) ELSE t
        prefixed == Len(u) >= 2 /\ u[1] = "0" /\ u[2] \in {"x", "X"}
        d == IF prefixed THEN SubSeq(u, 3, Len(u)) ELSE u
        magnitude ==
            IF d = <<>> THEN None
            ELSE IF IsHexDigit(Head(d)) \/ prefixed THEN DigitsValue(d, 0)
            ELSE None
    IN  IF magnitude = None THEN None
        ELSE IF signed /\ Head(t) = "-" THEN Some(0 - magnitude[1])
        ELSE magnitude

\* hex_to_rgb(hex): the tuple, or the ValueError of int()
hex_to_rgb(hex) ==
    LET stripped == LStrip(hex, {"#"})
        parts == [k \in 1..3 |-> IntBase16(Slice(stripped, 2 * (k - 1), 2 * k))]
    IN  IF \E k \in 1..3 : parts[k] = None
        THEN [kind |-> "raise", exc |-> "ValueError"]
        ELSE [kind |-> "ok", value |-> [k \in 1..3 |-> parts[k][1]]]

\* rgb_to_hex(r, g, b): '#' and three zero-padded lowercase hex bytes
rgb_to_hex(r, g, b) ==
    <<"#", LowerDigits[(r \div 16) + 1], LowerDigits[(r % 16) + 1],
           LowerDigits[(g \div 16) + 1], LowerDigits[(g % 16) + 1],
           LowerDigits[(b \div 16) + 1], LowerDigits[(b % 16) + 1]>>

----------------------------------------------------------------------------
(* Colour parsing as a state machine: a string arrives, hex_to_rgb runs *)

\* the two-character groups the inputs are built from
Groups ==
    {<<"F", "F">>, <<"0", "0">>, <<"a", "5">>, <<"0", "g">>, <<" ", "1">>,
     <<"1", " ">>, <<"+", "1">>, <<"-", "1">>, <<"1", "_">>, <<"0", "x">>,
     <<"#", "1">>}

\* what the third group can be: a full group, one character, or nothing
LastGroups == Groups \cup {<<"5">>, <<"g">>, <<>>}

Prefixes == {<<>>, <<"#">>, <<"#", "#">>}

Suffixes == {<<>>, <<"0">>, <<"z", "z">>}

HexInputs ==
    {p \o g1 \o g2 \o g3 \o x :
        p \in Prefixes, g1 \in Groups, g2 \in Groups, g3 \in LastGroups,
        x \in Suffixes}
    \cup {<<>>, <<"#">>, <<"F">>, <<"F", "F">>, <<"#", "F", "F", "0">>}

InitHex ==
    /\ pc = "start"
    /\ image = <<>>
    /\ min_cell_size = 2
    /\ max_cell_size = 50
    /\ grid_info = Pending
    /\ pixel_data = Pending
    /\ hex_color \in HexInputs
    /\ rgb = Pending
    /\ PERLER_COLORS = <<>>
    /\ request = NoRequest
    /\ response = Pending
    /\ calls = <<>>
    /\ size = <<0, 0>>
    /\ handlers = <<>>

\* hex_to_rgb(hex_color)
ParseHex ==
    /\ pc = "start"
    /\ pc' = "parsed"
    /\ rgb' = hex_to_rgb(hex_color)
    /\ UNCHANGED <<gridVars, pixelVars, hex_color, matchVars, uploadVars,
                 handlers>>

NextHex == ParseHex

SpecHex == InitHex /\ [][NextHex]_vars

Parsed == pc = "parsed"

\* the string without one leading '#', if it has one
WithoutOneHash(str) == IF str # <<>> /\ Head(str) = "#" THEN Tail(str) ELSE str

\* after removing at most one leading '#', exactly 6 hexadecimal digits
WellFormedHex(str) ==
    LET t == WithoutOneHash(str)
    IN  Len(t) = 6 /\ \A i \in 1..6 : IsHexDigit(t[i])

\* the three 2-digit bytes of a well-formed string, in order
BytesOf(str) ==
    LET t == WithoutOneHash(str)
    IN  [k \in 1..3 |-> 16 * DigitValue(t[2 * k - 1]) + DigitValue(t[2 * k])]

\* C8: hex_to_rgb succeeds exactly on the well-formed strings, then with the
\* three bytes in order, and fails on every other string
C8_StrictHex ==
    Parsed =>
        IF WellFormedHex(hex_color)
        THEN rgb = [kind |-> "ok", value |-> BytesOf(hex_color)]
        ELSE rgb.kind = "raise"

----------------------------------------------------------------------------
(* services/color_utils.py: distances.  A distance is kept in hundredths,  *)
(* rounded down; a LAB coordinate is kept in hundredths.                    *)

\* rgb_distance(rgb1, rgb2)
rgb_distance(rgb1, rgb2) ==
    ISqrt(10000 * ((rgb1[1] - rgb2[1]) * (rgb1[1] - rgb2[1])
                 + (rgb1[2] - rgb2[2]) * (rgb1[2] - rgb2[2])
                 + (rgb1[3] - rgb2[3]) * (rgb1[3] - rgb2[3])))

\* lab_distance(lab1, lab2)
lab_distance(lab1, lab2) ==
    ISqrt((lab1[1] - lab2[1]) * (lab1[1] - lab2[1])
        + (lab1[2] - lab2[2]) * (lab1[2] - lab2[2])
        + (lab1[3] - lab2[3]) * (lab1[3] - lab2[3]))

\* rgb_to_lab(r, g, b) at the colours the requests and palettes of this
\* model use: the (L, a, b) that rgb_to_xyz followed by xyz_to_lab gives,
\* rounded to hundredths
rgb_to_lab(r, g, b) ==
    CASE <<r, g, b>> = <<130, 130, 130>> -> <<5437, 0, 0>>
      [] <<r, g, b>> = <<130, 120, 110>> -> <<5104, 202, 687>>
      [] <<r, g, b>> = <<255, 0, 0>> -> <<5324, 8009, 6720>>
      [] <<r, g, b>> = <<120, 120, 120>> -> <<5043, 0, 0>>
      [] <<r, g, b>> = <<150, 130, 115>> -> <<5577, 514, 1093>>

Max3(r, g, b) == Max2(r, Max2(g, b))

Min3(r, g, b) == Min2(r, Min2(g, b))

\* the channel spread below which a colour counts as neutral
NeutralThreshold == 30

\* is_neutral_color(r, g, b): the max-min channel spread is below the
\* threshold
is_neutral_color(r, g, b) == Max3(r, g, b) - Min3(r, g, b) < NeutralThreshold

\* color_saturation(r, g, b) * 50, in hundredths: the saturation is
\* (max - min) / max, 0 for a gray
SaturationPenalty(r, g, b) ==
    IF Max3(r, g, b) = 0 THEN 0
    ELSE (5000 * (Max3(r, g, b) - Min3(r, g, b))) \div Max3(r, g, b)

----------------------------------------------------------------------------
(* routers/colors.py: match_colors *)

Range(seq) == {seq[i] : i \in DOMAIN seq}

\* the palette whatever the request lists
AvailableColorsUnfiltered(palette, req) == palette

\* available_perler_colors
AvailableColors(palette, req) ==
    IF req.available_colors # <<>>
    THEN SelectSeq(palette, LAMBDA c : c.id \in Range(req.available_colors))
    ELSE palette

\* the distance of one bead from the image colour, penalty included
BeadDistance(method, img_rgb, img_is_neutral, bead_rgb) ==
    LET distance ==
            IF method = "lab"
            THEN lab_distance(rgb_to_lab(img_rgb[1], img_rgb[2], img_rgb[3]),
                              rgb_to_lab(bead_rgb[1], bead_rgb[2], bead_rgb[3]))
            ELSE rgb_distance(img_rgb, bead_rgb)
    IN  IF img_is_neutral
        THEN distance + SaturationPenalty(bead_rgb[1], bead_rgb[2], bead_rgb[3])
        ELSE distance

\* the comparison with <= : a later bead at the same distance wins
CloserOrEqual(distance, best) == best = None \/ distance <= best[1].distance

\* if distance < best_distance, with best_distance = inf when best is None
Closer(distance, best) == best = None \/ distance < best[1].distance

RECURSIVE ClosestBead(_, _, _, _, _)
\* for bead_color in available_perler_colors, from position k on;
\* best is None (no bead yet) or the best bead so far with its distance
ClosestBead(method, img_rgb, beads, k, best) ==
    IF k > Len(beads) THEN best
    ELSE LET bead_rgb == hex_to_rgb(beads[k].hex)
             distance ==
                 BeadDistance(method, img_rgb,
                              is_neutral_color(img_rgb[1], img_rgb[2], img_rgb[3]),
                              bead_rgb.value)
         IN  IF bead_rgb.kind = "raise" THEN Some([kind |-> "raise"])
             ELSE ClosestBead(method, img_rgb, beads, k + 1,
                              IF Closer(distance, best)
                              THEN Some([kind |-> "best", bead |-> beads[k],
                                         distance |-> distance])
                              ELSE best)

RECURSIVE MatchLoop(_, _, _, _)
\* for image_hex in request.colors, from position i on; an exception of
\* hex_to_rgb is caught by 'except Exception' and becomes the 500 failure
MatchLoop(req, beads, i, matches) ==
    IF i > Len(req.colors)
    THEN [kind |-> "ok", matches |-> matches, method |-> req.method]
    ELSE LET img == hex_to_rgb(req.colors[i])
             best == ClosestBead(req.method, img.value, beads, 1, None)
         IN  IF img.kind = "raise"
             THEN [kind |-> "http_error", status_code |-> 500]
             ELSE IF best # None /\ best[1].kind = "raise"
             THEN [kind |-> "http_error", status_code |-> 500]
             ELSE IF best = None THEN MatchLoop(req, beads, i + 1, matches)
             ELSE MatchLoop(req, beads, i + 1,
                      Append(matches,
                             [image_color |-> req.colors[i],
                              bead_color_id |-> best[1].bead.id,
                              bead_color_hex |-> best[1].bead.hex,
                              bead_color_name |-> best[1].bead.name,
                              distance |-> best[1].distance]))

\* match_colors(request): the ColorMatchResponse or the HTTPException
match_colors(palette, req) ==
    LET available_perler_colors == AvailableColors(palette, req)
    IN  IF available_perler_colors = <<>>
        THEN [kind |-> "http_error", status_code |-> 400]
        ELSE MatchLoop(req, available_perler_colors, 1, <<>>)

----------------------------------------------------------------------------
(* Colour matching as a state machine: the palette is loaded, a request   *)
(* arrives, match_colors runs                                               *)

\* most query colours in one request
MaxQueries == 3

BeadGray == [id |-> "G1", hex |-> <<"#", "8", "2", "8", "2", "8", "2">>, name |-> "Gray"]

BeadRust == [id |-> "T1", hex |-> <<"#", "8", "2", "7", "8", "6", "e">>, name |-> "Rust"]

BeadGrayTwin == [id |-> "G2", hex |-> <<"#", "8", "2", "8", "2", "8", "2">>, name |-> "Gray Twin"]

BeadRed == [id |-> "R1", hex |-> <<"#", "F", "F", "0", "0", "0", "0">>, name |-> "Red"]

\* the palette table as loaded (empty when the load failed)
Palettes ==
    {<<BeadGray, BeadRust, BeadGrayTwin, BeadRed>>,
     <<BeadRed, BeadGrayTwin, BeadRust, BeadGray>>,
     <<>>}

\* a neutral colour, nearer to BeadRust before the penalty
QueryNeutral == <<"#", "7", "8", "7", "8", "7", "8">>

\* not neutral, nearer to BeadRust, nearer to BeadGray were it penalised
QueryTinted == <<"#", "9", "6", "8", "2", "7", "3">>

QueryRed == <<"f", "f", "0", "0", "0", "0">>

\* the colour of BeadGray and BeadGrayTwin
QueryGray == <<"#", "8", "2", "8", "2", "8", "2">>

\* malformed, int() raises
QueryBad == <<"z", "z", "0", "0", "0", "0">>

QueryEmpty == <<>>

\* malformed, yet parsed as QueryNeutral
QueryTwoHashes == <<"#", "#", "7", "8", "7", "8", "7", "8">>

QueryColours ==
    {QueryNeutral, QueryTinted, QueryRed, QueryGray, QueryBad, QueryEmpty,
     QueryTwoHashes}

Requests ==
    [colors : UNION {[1..n -> QueryColours] : n \in 0..MaxQueries},
     method : {"lab", "rgb"},
     available_colors : {<<>>, <<"G1">>, <<"R1", "G2", "X9">>, <<"X9">>}]

InitMatch ==
    /\ pc = "start"
    /\ image = <<>>
    /\ min_cell_size = 2
    /\ max_cell_size = 50
    /\ grid_info = Pending
    /\ pixel_data = Pending
    /\ hex_color = <<>>
    /\ rgb = Pending
    /\ PERLER_COLORS \in Palettes
    /\ request = NoRequest
    /\ response = Pending
    /\ calls = <<>>
    /\ size = <<0, 0>>
    /\ handlers = <<>>

\* POST /api/colors/match
MatchColors(req) ==
    /\ pc = "start"
    /\ pc' = "matched"
    /\ request' = req
    /\ response' = match_colors(PERLER_COLORS, req)
    /\ UNCHANGED <<gridVars, pixelVars, hexVars, PERLER_COLORS, uploadVars,
                 handlers>>

NextMatch == \E req \in Requests : MatchColors(req)

SpecMatch == InitMatch /\ [][NextMatch]_vars

Matched == pc = "matched"

Candidates == AvailableColors(PERLER_COLORS, request)

\* C9: over a non-empty candidate palette a malformed query colour does not
\* abort the batch: the response holds the match of every well-formed query
\* colour, in query order
C9_BatchSurvivesMalformed ==
    (Matched /\ Candidates # <<>>)
    => /\ response.kind = "ok"
       /\ [i \in DOMAIN response.matches |-> response.matches[i].image_color]
            = SelectSeq(request.colors, WellFormedHex)

\* the query colour of match i, as the three channel values
QueryRgb(i) == hex_to_rgb(response.matches[i].image_color).value

BeadRgb(bead) == hex_to_rgb(bead.hex).value

\* the distance in the requested space, without penalty
RawDistance(q, bead) ==
    IF request.method = "lab"
    THEN lab_distance(rgb_to_lab(q[1], q[2], q[3]),
                      rgb_to_lab(BeadRgb(bead)[1], BeadRgb(bead)[2], BeadRgb(bead)[3]))
    ELSE rgb_distance(q, BeadRgb(bead))

PenaltyOf(bead) ==
    SaturationPenalty(BeadRgb(bead)[1], BeadRgb(bead)[2], BeadRgb(bead)[3])

\* the raw distance, plus 50 x saturation(candidate) iff the query is neutral
PenalizedDistance(q, bead) ==
    IF is_neutral_color(q[1], q[2], q[3])
    THEN RawDistance(q, bead) + PenaltyOf(bead)
    ELSE RawDistance(q, bead)

\* C10: each query colour is matched to the candidate of minimum penalized
\* distance (raw distance plus 50 x saturation(candidate) iff the query is
\* neutral), the first in palette order among several at the minimum, and
\* the reported distance is that minimum
C10_MinimumPenalizedFirst ==
    (Matched /\ response.kind = "ok")
    => /\ Len(response.matches) = Len(request.colors)
       /\ \A i \in DOMAIN response.matches :
            /\ response.matches[i].image_color = request.colors[i]
            /\ \E k \in DOMAIN Candidates :
                /\ response.matches[i].bead_color_id = Candidates[k].id
                /\ response.matches[i].bead_color_hex = Candidates[k].hex
                /\ response.matches[i].bead_color_name = Candidates[k].name
                /\ response.matches[i].distance = PenalizedDistance(QueryRgb(i), Candidates[k])
                /\ \A j \in DOMAIN Candidates :
                    /\ PenalizedDistance(QueryRgb(i), Candidates[k])
                        <= PenalizedDistance(QueryRgb(i), Candidates[j])
                    /\ j < k => PenalizedDistance(QueryRgb(i), Candidates[k])
                                < PenalizedDistance(QueryRgb(i), Candidates[j])

\* the candidate that match i selected
Selected(i) ==
    CHOOSE k \in DOMAIN Candidates : Candidates[k].id = response.matches[i].bead_color_id

\* one response in which a neutral query went to a bead that is not raw
\* nearest, a query had two candidates at the minimum and got the earlier,
\* and a query that is not neutral got a bead the penalty would have lost
C10_Witness ==
    /\ Matched
    /\ response.kind = "ok"
    /\ \E i \in DOMAIN response.matches :
        /\ is_neutral_color(QueryRgb(i)[1], QueryRgb(i)[2], QueryRgb(i)[3])
        /\ \E j \in DOMAIN Candidates :
            RawDistance(QueryRgb(i), Candidates[j])
                < RawDistance(QueryRgb(i), Candidates[Selected(i)])
    /\ \E i \in DOMAIN response.matches :
        \E j \in DOMAIN Candidates :
            /\ j > Selected(i)
            /\ PenalizedDistance(QueryRgb(i), Candidates[j]) = response.matches[i].distance
    /\ \E i \in DOMAIN response.matches :
        /\ ~is_neutral_color(QueryRgb(i)[1], QueryRgb(i)[2], QueryRgb(i)[3])
        /\ \E j \in DOMAIN Candidates :
            RawDistance(QueryRgb(i), Candidates[j]) + PenaltyOf(Candidates[j])
                < response.matches[i].distance + PenaltyOf(Candidates[Selected(i)])

----------------------------------------------------------------------------
(* match_colors: the filter by available_colors *)

\* the ids the request restricts the palette to
CandidateIds == Range(request.available_colors)

\* C11: with a non-empty available_colors, if no palette entry has a listed
\* id the request fails with the 400 failure (not the 500 one) and carries
\* no match; if some have, every selected bead has a listed id
C11_FilterByCandidateIds ==
    (Matched /\ request.available_colors # <<>>)
    => IF \A k \in DOMAIN PERLER_COLORS : PERLER_COLORS[k].id \notin CandidateIds
       THEN response = [kind |-> "http_error", status_code |-> 400]
       ELSE response.kind = "ok"
            => \A i \in DOMAIN response.matches :
                 /\ response.matches[i].bead_color_id \in CandidateIds
                 /\ \E k \in DOMAIN PERLER_COLORS :
                      /\ PERLER_COLORS[k].id = response.matches[i].bead_color_id
                      /\ PERLER_COLORS[k].hex = response.matches[i].bead_color_hex

\* a request with query colours, one of them malformed, restricted to an id
\* that the loaded palette does not hold, answered by the 400 failure
C11_Witness ==
    /\ Matched
    /\ PERLER_COLORS # <<>>
    /\ request.available_colors = <<"X9">>
    /\ QueryBad \in Range(request.colors)
    /\ QueryNeutral \in Range(request.colors)
    /\ response = [kind |-> "http_error", status_code |-> 400]

----------------------------------------------------------------------------
(* services/pixel_extraction.py: extract_pixels_simple *)

\* the index with the rows and columns exchanged
PixelIndexColumnMajor(y, x, width, height) == x * height + y

\* idx = y * width + x
PixelIndex(y, x, width, height) == y * width + x

\* extract_pixels_simple(image): list(image.getdata()) read back row by row
extract_pixels_simple(img) ==
    LET width == Width(img)
        height == Height(img)
        pixels == Flatten(img)
    IN  [kind |-> "pixels",
         width |-> width,
         height |-> height,
         grid |-> [y \in 1..height |->
                     [x \in 1..width |->
                         At(pixels, PixelIndex(y - 1, x - 1, width, height))]]]

----------------------------------------------------------------------------
(* routers/images.py: upload_image.  An optional form field is None or    *)
(* Some(n).  The uploads of this model pass the validation of lines 46-66. *)

\* the truth value of an Optional[int]: None and 0 are false
Truthy(field) == field # None /\ field[1] # 0

\* field or 0
OrZero(field) == IF Truthy(field) THEN field[1] ELSE 0

\* image.crop((offset_x, offset_y, width, height))
CropFrom(img, offset_x, offset_y) ==
    [y \in 1..(Height(img) - offset_y) |->
        [x \in 1..(Width(img) - offset_x) |-> img[y + offset_y][x + offset_x]]]

\* the grid built from the manual form fields
ManualGrid(req, width, height) ==
    [kind |-> "grid",
     cell_width |-> req.manual_cell_width[1],
     cell_height |-> req.manual_cell_height[1],
     grid_cols |-> (width - OrZero(req.manual_offset_x)) \div req.manual_cell_width[1],
     grid_rows |-> (height - OrZero(req.manual_offset_y)) \div req.manual_cell_height[1],
     confidence |-> 10]

\* no grid whatever detect_grid returned
GridNever(gi) == FALSE

\* if grid_info: a dict is true, None is false
GridDetected(gi) == gi.kind = "grid"

\* one entry of the call log
Call(fn, gi) == [fn |-> fn, grid_info |-> gi]

\* images that the detector rejects, accepts, or fails on
UploadImages ==
    SmallImages \cup Checkerboards
    \cup {UniformImage(w, w, Dim) : w \in {SideUnit, 2 * SideUnit, 3 * SideUnit}}

FormFields ==
    [manual_cell_width : {None, Some(0), Some(2)},
     manual_cell_height : {None, Some(2)},
     manual_offset_x : {None, Some(1)},
     manual_offset_y : {None, Some(0), Some(1)}]

\* an upload with its form fields; an offset stays inside the image
Uploads ==
    {u \in UploadImages \X FormFields :
        /\ OrZero(u[2].manual_offset_x) < Width(u[1])
        /\ OrZero(u[2].manual_offset_y) < Height(u[1])}

InitUpload ==
    /\ pc = "start"
    /\ \E u \in Uploads : image = u[1] /\ request = u[2]
    /\ min_cell_size = 2
    /\ max_cell_size = 50
    /\ grid_info = Pending
    /\ pixel_data = Pending
    /\ hex_color = <<>>
    /\ rgb = Pending
    /\ PERLER_COLORS = <<>>
    /\ response = Pending
    /\ calls = <<>>
    /\ size = <<0, 0>>
    /\ handlers = <<>>

\* the form carries both manual cell sizes
ManualRequested == Truthy(request.manual_cell_width) /\ Truthy(request.manual_cell_height)

\* lines 60-91: the grid from the manual fields, the image cropped by the offset
UploadManualGrid ==
    /\ pc = "start"
    /\ ManualRequested
    /\ pc' = "grid"
    /\ size' = <<Width(image), Height(image)>>
    /\ grid_info' = ManualGrid(request, Width(image), Height(image))
    /\ image' = IF Truthy(request.manual_offset_x) \/ Truthy(request.manual_offset_y)
                THEN CropFrom(image, OrZero(request.manual_offset_x),
                              OrZero(request.manual_offset_y))
                ELSE image
    /\ UNCHANGED <<min_cell_size, max_cell_size, pixelVars, hexVars, matchVars,
                   calls, handlers>>

\* lines 60-94: grid_info = detect_grid(image); an exception of detect_grid
\* becomes the 500 failure of lines 117-119
UploadDetectGrid ==
    /\ pc = "start"
    /\ ~ManualRequested
    /\ size' = <<Width(image), Height(image)>>
    /\ calls' = Append(calls, Call("detect_grid", None))
    /\ LET result == detect_grid(image, min_cell_size, max_cell_size)
       IN  IF result.kind = "raise"
           THEN /\ pc' = "responded"
                /\ response' = [kind |-> "http_error", status_code |-> 500]
                /\ UNCHANGED grid_info
           ELSE /\ pc' = "grid"
                /\ grid_info' = result
                /\ UNCHANGED response
    /\ UNCHANGED <<image, min_cell_size, max_cell_size, pixelVars, hexVars,
                   PERLER_COLORS, request, handlers>>

\* lines 97-100
UploadExtractFromGrid ==
    /\ pc = "grid"
    /\ GridDetected(grid_info)
    /\ pc' = "pixels"
    /\ calls' = Append(calls, Call("extract_pixels_from_grid", Some(grid_info)))
    /\ pixel_data' = extract_pixels_from_grid(image, grid_info)
    /\ UNCHANGED <<gridVars, hexVars, matchVars, size, handlers>>

\* lines 101-103
UploadExtractSimple ==
    /\ pc = "grid"
    /\ ~GridDetected(grid_info)
    /\ pc' = "pixels"
    /\ calls' = Append(calls, Call("extract_pixels_simple", None))
    /\ pixel_data' = extract_pixels_simple(image)
    /\ UNCHANGED <<gridVars, hexVars, matchVars, size, handlers>>

\* lines 105-113
UploadRespond ==
    /\ pc = "pixels"
    /\ pc' = "responded"
    /\ response' = [kind |-> "ok",
                    success |-> TRUE,
                    width |-> size[1],
                    height |-> size[2],
                    pixels |-> pixel_data,
                    grid |-> IF grid_info.kind = "grid" THEN Some(grid_info) ELSE None]
    /\ UNCHANGED <<gridVars, pixelVars, hexVars, PERLER_COLORS, request,
                   uploadVars, handlers>>

NextUpload ==
    \/ UploadManualGrid
    \/ UploadDetectGrid
    \/ UploadExtractFromGrid
    \/ UploadExtractSimple
    \/ UploadRespond

SpecUpload == InitUpload /\ [][NextUpload]_vars

Responded == pc = "responded"

\* the extraction call of this request, if one was made
Extraction == SelectSeq(calls, LAMBDA c : c.fn # "detect_grid")

SimpleExtracted ==
    /\ pc \in {"pixels", "responded"}
    /\ Extraction = <<Call("extract_pixels_simple", None)>>

\* C15: extract_pixels_simple returns the width and height of the image and
\* a grid of height rows of width entries in which grid[y][x] is the source
\* pixel at column x of row y
C15_SimpleCopiesEveryPixel ==
    SimpleExtracted
    => /\ pixel_data.width = Width(image)
       /\ pixel_data.height = Height(image)
       /\ DOMAIN pixel_data.grid = 1..Height(image)
       /\ \A y \in 1..Height(image) :
            /\ DOMAIN pixel_data.grid[y] = 1..Width(image)
            /\ \A x \in 1..Width(image) : pixel_data.grid[y][x] = image[y][x]

\* direct extraction of an image that is not square and not symmetric
C15_Witness ==
    /\ SimpleExtracted
    /\ Width(image) = 3
    /\ Height(image) = 2
    /\ image[1] = <<Sky, Rose, Rose>>
    /\ image[2] = <<Rose, Sky, Sky>>
    /\ pixel_data.grid[2][1] = Rose

----------------------------------------------------------------------------
(* routers/colors.py: the palette endpoints under concurrent requests.    *)
(* Each handler is an async function without an await, so the event loop  *)
(* runs it to completion; requests arrive and are served in any order.    *)

\* most requests in flight at once
MaxInFlight == 2

\* get_perler_colors()
get_perler_colors(palette) == [kind |-> "ok", value |-> palette]

\* get_perler_color(color_id)
get_perler_color(palette, color_id) ==
    LET found == SelectSeq(palette, LAMBDA c : c.id = color_id)
    IN  IF found = <<>>
        THEN [kind |-> "http_error", status_code |-> 404]
        ELSE [kind |-> "ok", value |-> found[1]]

\* the table replaced by the filtered list of the request
PaletteAfterFilter(palette, h) ==
    IF h.op = "match" THEN AvailableColors(palette, h.arg) ELSE palette

\* PERLER_COLORS after a handler ran: no handler assigns or mutates it
PaletteAfter(palette, h) == palette

\* what a handler answers over a palette
HandlerResult(palette, h) ==
    CASE h.op = "match" -> match_colors(palette, h.arg)
      [] h.op = "list" -> get_perler_colors(palette)
      [] h.op = "lookup" -> get_perler_color(palette, h.arg)

PaletteRequests ==
    {[op |-> "match", arg |-> req, result |-> Pending] :
        req \in [colors : {<<QueryNeutral, QueryTinted>>},
                 method : {"rgb"},
                 available_colors : {<<>>, <<"G1", "R1">>, <<"X9">>}]}
    \cup {[op |-> "list", arg |-> None, result |-> Pending]}
    \cup {[op |-> "lookup", arg |-> id, result |-> Pending] : id \in {"G2", "X9"}}

InitPalette ==
    /\ pc = "start"
    /\ image = <<>>
    /\ min_cell_size = 2
    /\ max_cell_size = 50
    /\ grid_info = Pending
    /\ pixel_data = Pending
    /\ hex_color = <<>>
    /\ rgb = Pending
    /\ PERLER_COLORS \in Palettes
    /\ request = NoRequest
    /\ response = Pending
    /\ calls = <<>>
    /\ size = <<0, 0>>
    /\ handlers = <<>>

\* a request arrives
Arrive(h) ==
    /\ Len(handlers) < MaxInFlight
    /\ handlers' = Append(handlers, h)
    /\ UNCHANGED <<pc, gridVars, pixelVars, hexVars, matchVars, uploadVars>>

\* the event loop runs the handler of request i
Serve(i) ==
    /\ handlers[i].result = Pending
    /\ handlers' = [handlers EXCEPT ![i].result = HandlerResult(PERLER_COLORS, handlers[i])]
    /\ PERLER_COLORS' = PaletteAfter(PERLER_COLORS, handlers[i])
    /\ UNCHANGED <<pc, gridVars, pixelVars, hexVars, request, response, uploadVars>>

NextPalette ==
    \/ \E h \in PaletteRequests : Arrive(h)
    \/ \E i \in DOMAIN handlers : Serve(i)

SpecPalette == InitPalette /\ [][NextPalette]_vars

\* C13: no step changes PERLER_COLORS, so the table keeps its load-time
\* entries in their order, and after every step each answered request holds
\* the answer it has when run alone over that table
C13_PaletteReadOnly ==
    [][/\ PERLER_COLORS' = PERLER_COLORS
       /\ \A i \in DOMAIN handlers' :
            handlers'[i].result # Pending
            => handlers'[i].result
                 = HandlerResult(PERLER_COLORS,
                                 [handlers'[i] EXCEPT !.result = Pending])]_vars

\* a filtered match and a list request both answered, the match served
\* first although it arrived second, over a palette the filter cuts down
C13_Witness ==
    /\ Len(PERLER_COLORS) = 4
    /\ Len(handlers) = 2
    /\ handlers[1].op = "list"
    /\ handlers[1].result = [kind |-> "ok", value |-> PERLER_COLORS]
    /\ handlers[2].op = "match"
    /\ handlers[2].arg.available_colors = <<"G1", "R1">>
    /\ handlers[2].result.kind = "ok"
    /\ Len(handlers[2].result.matches) = 2

----------------------------------------------------------------------------
(* extract_pixels_from_grid: the shape of the result and the windows *)

\* the 0-based pixel (x, y) lies in the bounding box of the cell
InBox(cell, x, y) ==
    /\ cell[2] * grid_info.cell_width <= x
    /\ x < (cell[2] + 1) * grid_info.cell_width
    /\ cell[1] * grid_info.cell_height <= y
    /\ y < (cell[1] + 1) * grid_info.cell_height

\* the image with one pixel repainted
Repainted(x, y, colour) == [image EXCEPT ![y + 1][x + 1] = colour]

\* C14: the result has width = grid_cols, height = grid_rows and a grid of
\* grid_rows rows of grid_cols entries, and the entry of a cell depends on
\* no pixel outside the cell's box: repainting such a pixel leaves it as is
C14_ShapeAndLocality ==
    Extracted
    => /\ pixel_data.width = grid_info.grid_cols
       /\ pixel_data.height = grid_info.grid_rows
       /\ DOMAIN pixel_data.grid = 1..grid_info.grid_rows
       /\ \A r \in DOMAIN pixel_data.grid :
            DOMAIN pixel_data.grid[r] = 1..grid_info.grid_cols
       /\ \A cell \in Cells :
            \A x \in 0..(Width(image) - 1), y \in 0..(Height(image) - 1) :
                ~InBox(cell, x, y)
                => \A colour \in {Sky, Rose, Moss} :
                     CellColour(Repainted(x, y, colour), grid_info, cell[1], cell[2])
                        = pixel_data.grid[cell[1] + 1][cell[2] + 1]

\* a grid of several cells whose entries differ, with pixels left over
\* outside every cell
C14_Witness ==
    /\ Extracted
    /\ grid_info.grid_rows >= 1
    /\ grid_info.grid_cols >= 2
    /\ grid_info.cell_width >= 2
    /\ grid_info.grid_cols * grid_info.cell_width < Width(image)
    /\ pixel_data.grid[1][1] # pixel_data.grid[1][2]

\* grid_cols and grid_rows are the integer quotients, the cell sizes >= 1
ValidGrid ==
    /\ grid_info.cell_width >= 1
    /\ grid_info.cell_height >= 1
    /\ grid_info.grid_cols = Width(image) \div grid_info.cell_width
    /\ grid_info.grid_rows = Height(image) \div grid_info.cell_height

\* floor(0.2 x cell dimension): the largest m with 5 m <= cell
FifthOf(cell) == CHOOSE m \in 0..cell : 5 * m <= cell /\ cell < 5 * (m + 1)

\* C18: for a valid grid the window of every cell is the cell's box less
\* floor(0.2 x cell dimension) pixels on each side, is at least 1x1, lies
\* in the box and in the image, and holds pixels, so the (0,0,0) fallback
\* is not taken
C18_WindowInsideCell ==
    (Extracted /\ ValidGrid)
    => \A cell \in Cells :
        LET win == CellWindow(image, grid_info, cell[1], cell[2])
        IN  /\ win.x0 = cell[2] * grid_info.cell_width + FifthOf(grid_info.cell_width)
            /\ win.x1 = (cell[2] + 1) * grid_info.cell_width - FifthOf(grid_info.cell_width)
            /\ win.y0 = cell[1] * grid_info.cell_height + FifthOf(grid_info.cell_height)
            /\ win.y1 = (cell[1] + 1) * grid_info.cell_height - FifthOf(grid_info.cell_height)
            /\ win.x0 < win.x1
            /\ win.y0 < win.y1
            /\ \A x \in win.x0..(win.x1 - 1), y \in win.y0..(win.y1 - 1) :
                 InBox(cell, x, y) /\ x < Width(image) /\ y < Height(image)
            /\ Len(WindowPixels(image, win)) = (win.x1 - win.x0) * (win.y1 - win.y0)

\* a cell wide enough for a margin: 5 pixels, sampled over the middle 3
C18_Witness ==
    /\ Extracted
    /\ ValidGrid
    /\ grid_info.cell_width = 5
    /\ grid_info.grid_cols = 1
    /\ grid_info.grid_rows = 1
    /\ CellWindow(image, grid_info, 0, 0).x0 = 1
    /\ CellWindow(image, grid_info, 0, 0).x1 = 4
    /\ image[1][1] = Moss
    /\ pixel_data.grid[1][1] # Moss

----------------------------------------------------------------------------
(* find_periodic_peak: the tiers of the peak search *)

\* the analysed square crop of the image
CropOf(img) ==
    LET gray == Gray(img)
        half == Min2(MaxCrop, Min2(Len(gray), Len(gray[1]))) \div 2
    IN  Crop(gray, Len(gray) \div 2 - half, Len(gray) \div 2 + half,
                   Len(gray[1]) \div 2 - half, Len(gray[1]) \div 2 + half)

\* the autocorrelation of the centre row ("h") or centre column ("v") of
\* the crop from lag 0 on: element L (0-based) is the value at lag L
LagValues(img, axis) ==
    LET cropped == CropOf(img)
        half == Min2(MaxCrop, Min2(Len(img), Len(img[1]))) \div 2
        centre == IF axis = "h" THEN At(cropped, half)
                  ELSE [y \in 1..Len(cropped) |-> At(cropped[y], half)]
        autocorr == CorrelateSame(centre)
    IN  Slice(autocorr, Len(autocorr) \div 2, Len(autocorr))

\* the lags 1..search_range as searched: element i (0-based) is lag i + 1
SearchLine(img, axis) ==
    LET line1 == Slice(LagValues(img, axis), 1, MaxCrop)
    IN  Slice(line1, 0, Min2(max_cell_size, Len(line1)))

\* what the peak search did on one axis of the image
AxisSearch(axis) == PeriodicPeakTier(LagValues(image, axis), max_cell_size)

\* the call returned or gave None: both axes were searched
Searched == Detected /\ grid_info.kind # "raise"

Axes == {"h", "v"}

\* value[L+1] - 2 value[L] + value[L-1]
KinkStrength(values, L) == At(values, L + 1) - 2 * At(values, L) + At(values, L - 1)

\* C16: when the curvature tier gives the size of an axis, the size is a
\* lag L >= 5 with L + 1 inside the searched lags at which the second
\* difference of the autocorrelation is largest among those lags
C16_CurvatureAtKink ==
    Searched
    => \A a \in Axes :
        AxisSearch(a).tier = "curvature"
        => LET L == AxisSearch(a).value[1]
               values == LagValues(image, a)
               n == Min2(max_cell_size, Len(values) - 1)
           IN  /\ L >= 5
               /\ L + 1 <= n
               /\ \A M \in 5..(n - 1) :
                    KinkStrength(values, L) >= KinkStrength(values, M)

\* the 0-based indexes i >= 5 of the searched line that are simple local
\* maxima
SimpleLocalMaxima(search_line) ==
    {i \in 5..(Len(search_line) - 2) :
        /\ At(search_line, i) > At(search_line, i - 1)
        /\ At(search_line, i) > At(search_line, i + 1)}

\* the peaks of the prominence search
ProminentPeaks(search_line) ==
    IF Len(search_line) < 3 THEN <<>> ELSE FindPeaks(search_line, PeakDistance)

\* C17: on each axis the first tier that succeeds gives the result: the
\* first prominent peak if there is one; else the first simple local
\* maximum at index >= 5 if there is one; else the curvature result if the
\* segment has more than 10 samples; and no period only if none applies
C17_TiersInOrder ==
    Searched
    => \A a \in Axes :
        LET r == AxisSearch(a)
            search_line == SearchLine(image, a)
            peaks == ProminentPeaks(search_line)
            locals == SimpleLocalMaxima(search_line)
            first == CHOOSE i \in locals : \A k \in locals : i <= k
        IN  /\ peaks # <<>> => r.value = Some(At(peaks, 0) + 1)
            /\ (peaks = <<>> /\ locals # {}) => r.value = Some(first + 1)
            /\ r.tier = "local" => (peaks = <<>> /\ locals # {})
            /\ r.tier = "curvature"
                 => (peaks = <<>> /\ locals = {} /\ Len(search_line) > 10)
            /\ r.value = None
                 => (peaks = <<>> /\ locals = {} /\ Len(search_line) <= 10)

\* the width came from the simple-local-maximum tier while the centre row
\* does have local maxima that the prominence search turned down
C17_Witness ==
    /\ Searched
    /\ grid_info.kind = "grid"
    /\ AxisSearch("h").tier = "local"
    /\ LocalMaxima(SearchLine(image, "h")) # <<>>
    /\ ProminentPeaks(SearchLine(image, "h")) = <<>>
    /\ grid_info.cell_width = AxisSearch("h").value[1]

\* C19: the guard of the curvature tier holds whenever the tier is
\* reachable, and an image with both sides >= 24 searched with
\* max_cell_size >= 11 gets a period on each axis and so a grid, never None
C19_LargeImageAlwaysGrid ==
    Searched
    => /\ \A a \in Axes :
            LET search_line == SearchLine(image, a)
            IN  Len(search_line) > 10
                => CurvatureCandidate(search_line) <= max_cell_size
       /\ (Min2(Width(image), Height(image)) >= 24 /\ max_cell_size >= 11)
            => /\ \A a \in Axes : AxisSearch(a).value # None
               /\ grid_info.kind = "grid"

\* an image at the limit, 24 pixels a side and uniform, searched over 11
\* lags with both axes settled by the curvature tier
C19_Witness ==
    /\ Searched
    /\ Width(image) = 24
    /\ Height(image) = 24
    /\ IsUniform(image)
    /\ Len(SearchLine(image, "h")) = 11
    /\ AxisSearch("h").tier = "curvature"
    /\ AxisSearch("v").tier = "curvature"
    /\ grid_info.kind = "grid"

\* the side of the centred square crop is at most this
CropSide == Min2(MaxCrop, Min2(Width(image), Height(image)))

\* C20: a returned grid has cell sizes >= 2 and at most half the side of
\* the analysed crop, hence at least 2 columns and 2 rows, and the cells
\* fit in the image
C20_CellSizeBounds ==
    (Detected /\ grid_info.kind = "grid")
    => /\ grid_info.cell_width >= 2
       /\ grid_info.cell_height >= 2
       /\ 2 * grid_info.cell_width <= CropSide
       /\ 2 * grid_info.cell_height <= CropSide
       /\ grid_info.grid_cols >= 2
       /\ grid_info.grid_rows >= 2
       /\ grid_info.cell_width * grid_info.grid_cols <= Width(image)
       /\ grid_info.cell_height * grid_info.grid_rows <= Height(image)

\* the smallest size, from a peak at the first position after lag 1
C20_Witness ==
    /\ Detected
    /\ grid_info.kind = "grid"
    /\ grid_info.cell_width = 2
    /\ AxisSearch("h").tier = "prominence"

====
